---- MODULE Spec2Model ----
(***************************************************************************)
(* Model of src/app.py: the command handlers of the NFT rarity bot.        *)
(*                                                                         *)
(* /start answers with a welcome, /auth <key> adds the caller to the set   *)
(* of authorized users and saves the set, /analyze runs the pipeline for   *)
(* an authorized caller.  The handlers run one at a time.                  *)
(*                                                                         *)
(* One invocation of analyze() fetches the metadata document of every      *)
(* token id in range(start, end + 1) through a thread pool, counts trait   *)
(* values, scores and ranks the tokens, writes a CSV report and a ZIP      *)
(* archive, sends both and removes them.                                   *)
(*                                                                         *)
(* Abstractions                                                            *)
(*  - A JSON document is [kind, form, items]:                              *)
(*      kind  "None"    no document (fetch_metadata returned None)         *)
(*            "falsy"   a parsed body Python treats as false               *)
(*                      (null, {}, [], 0, false, "")                       *)
(*            "nondict" a parsed body that is true but no object           *)
(*                      ([1], "x", 7, true): it has no .get                *)
(*            "object"  a non-empty JSON object                            *)
(*      form  of the object's "attributes" member:                         *)
(*            "absent" (no such key), "null" (JSON null), "list", "map"    *)
(*      items the entries of the list or of the mapping, in order.         *)
(*  - An entry is [shape, trait_type, value]: shape "pair" is an object    *)
(*    holding both keys "trait_type" and "value"; shape "other" is any     *)
(*    other list element; shape "key" is what iterating a mapping yields   *)
(*    (its key strings).                                                   *)
(*  - rarity_score is kept as an integer number of 1/10000 (round(x, 4));  *)
(*    the sum is computed exactly as a fraction and rounded once, half to  *)
(*    even.  Binary floating point differs from the exact sum only in the  *)
(*    last bits, which round(score, 4) discards unless the exact sum lies  *)
(*    on a rounding boundary; that needs a frequency divisible by 32.      *)
(*  - A command argument is [text, int, val]: int tells whether int(text)  *)
(*    succeeds and val is its value.                                       *)
(*  - authorized_users.json is [exists, ids]: ids is the JSON array in the *)
(*    order list(set) happened to give.                                    *)
(***************************************************************************)
EXTENDS Integers, Sequences, FiniteSets, TLC

\* Bounds of the model.
MaxId == 2        \* token ids are drawn from 1..MaxId
MaxAttrs == 2     \* longest "attributes" list of a document
MaxRows == 5      \* longest score table of SpecRank
MaxQueued == 2    \* SpecPool: tasks submitted beyond the size of the pool

\* src/app.py:99  ThreadPoolExecutor(max_workers=32)
max_workers == 32

\* src/app.py:142  round(score, 4): scores are counted in units of 10^-4
ScoreScale == 10000

\* src/app.py:73-77
gateways == << "https://ipfs.io/ipfs/",
               "https://cloudflare-ipfs.com/ipfs/",
               "https://gateway.pinata.cloud/ipfs/" >>

\* src/app.py:88
suffixes == << "", ".json" >>

VARIABLES
    authorized_users, \* the set of authorized user ids
    auth_file,      \* content of authorized_users.json
    cmd,            \* the command whose handler runs or has just ended
    user_id,        \* update.effective_user.id of that command
    args,           \* context.args of that command
    pc,             \* position of the handler
    start, end,     \* int(start_id), int(end_id)
    fut,            \* state of each submitted future
    gw_idx,         \* fetch_metadata: index of gw in gateways, per running call
    sfx_idx,        \* fetch_metadata: index of suffix, per running call
    succeeded,      \* history: some request was OK with a JSON body, per token
    result,         \* fut.result()[1], per token
    collected,      \* futures already yielded by as_completed
    jsons,          \* dict token_id -> data, in insertion order
    trait_counter,  \* defaultdict(Counter): trait_type -> value -> count
    rarity_data,    \* list of rows
    csv,            \* content written to output_csv
    zip,            \* entries written to output_zip
    disk,           \* which of this invocation's two files exist
    reported,       \* the result message sent to the user
    error           \* the exception that left the handler, if any

vars == << authorized_users, auth_file, cmd, user_id, args, pc, start, end, fut, gw_idx, sfx_idx, succeeded, result,
           collected, jsons, trait_counter, rarity_data, csv, zip, disk,
           reported, error >>

\* what no handler changes but start, auth and the entry of analyze
ctx == << authorized_users, auth_file, cmd, user_id, args >>

-----------------------------------------------------------------------------
\* Commands

\* src/app.py:21  the configured access key
ACCESS_KEY == "secret"

\* Telegram user ids
Users == {1, 2}

\* The only user of Spec and SpecPool, which explore the pipeline.
Operators == {1}

IntText(n) == [text |-> "digits", int |-> TRUE, val |-> n]
Word(s) == [text |-> s, int |-> FALSE, val |-> 0]

\* the CID argument of /analyze
Cid == Word("cid")

\* context.args of /auth: none, the key, another word, the key and more
AuthArgs ==
    {<< >>, << Word(ACCESS_KEY) >>, << Word("guess") >>,
     << Word(ACCESS_KEY), Word("guess") >>}

WrongCountArgs ==
    {<< >>, << Cid, IntText(1) >>, << Cid, IntText(1), IntText(1), IntText(1) >>}

NonIntegerArgs ==
    {<< Cid, Word("x"), IntText(1) >>, << Cid, IntText(1), Word("x") >>,
     << Cid, Word("x"), Word("x") >>}

RangeArgs(S, E) == {<< Cid, IntText(s), IntText(e) >> : s \in S, e \in E}

\* context.args of /analyze in Spec
AnalyzeArgs == WrongCountArgs \cup NonIntegerArgs \cup RangeArgs(1..MaxId, 0..MaxId)

\* A gate that lets every caller pass.
NotAuthorizedNever(u, au) == FALSE

\* src/app.py:55  user_id not in authorized_users
NotAuthorized(u, au) == u \notin au

\* src/app.py:59  len(context.args) != 3
WrongCount(a) == Len(a) # 3

\* int() taking any text for a number
ParsesAlways(a) == TRUE

\* src/app.py:64-65  int(start_id), int(end_id) does not raise
ParsesAsInt(a) == a.int

\* A key check every argument passes.
KeyMatchesAny(a) == TRUE

\* src/app.py:46  context.args[0] == ACCESS_KEY
KeyMatches(a) == a[1].text = ACCESS_KEY

Range(s) == {s[k] : k \in 1..Len(s)}

\* the orders list(authorized_users) can give
Listings(S) == {l \in [1..Cardinality(S) -> S] : Range(l) = S}

NoFile == [exists |-> FALSE, ids |-> << >>]
File(l) == [exists |-> TRUE, ids |-> l]

\* src/app.py:31-33  what save_auth_users can write
SavedFiles(au) == {File(l) : l \in Listings(au)}

\* src/app.py:25-29  the set loaded at start-up
LoadedUsers(f) == IF f.exists THEN Range(f.ids) ELSE {}

\* the files that can be there at start-up with users from U
StartupFiles(U) == {NoFile} \cup UNION {SavedFiles(S) : S \in SUBSET U}

-----------------------------------------------------------------------------
\* Documents

Traits == {"Background"}
Values == {"Blue", "Red"}

PairEntry(t, v) == [shape |-> "pair", trait_type |-> t, value |-> v]
OtherEntry == [shape |-> "other", trait_type |-> "", value |-> ""]
KeyEntry(t) == [shape |-> "key", trait_type |-> t, value |-> ""]

PairEntries == {PairEntry(t, v) : t \in Traits, v \in Values}

SeqsUpTo(S, n) == UNION {[1..k -> S] : k \in 0..n}

\* A JSON object has each key once.
DistinctTraits(items) ==
    \A a, b \in 1..Len(items) : a # b => items[a].trait_type # items[b].trait_type

NoneDoc == [kind |-> "None", form |-> "absent", items |-> << >>]
FalsyDoc == [kind |-> "falsy", form |-> "absent", items |-> << >>]
NonDictDoc == [kind |-> "nondict", form |-> "absent", items |-> << >>]
ObjectDoc(form, items) == [kind |-> "object", form |-> form, items |-> items]

ValueOrder == << "Blue", "Red" >>
ValueIndex(v) == CHOOSE k \in 1..Len(ValueOrder) : ValueOrder[k] = v

\* The qualifying entries of a list are taken in the order of ValueOrder:
\* which of two different values of a trait a list names first changes only
\* the value flat_traits keeps for the trait.
InValueOrder(s) ==
    \A j, k \in 1..Len(s) : j < k => ValueIndex(s[j].value) <= ValueIndex(s[k].value)

PairLists(n) == {s \in SeqsUpTo(PairEntries, n) : InValueOrder(s)}

\* Lists of up to MaxAttrs qualifying pairs, and lists that begin with a
\* non-qualifying entry, alone or in front of one pair.
ListDocs ==
    {ObjectDoc("list", s) : s \in PairLists(MaxAttrs)}
    \cup {ObjectDoc("list", << OtherEntry >> \o s) : s \in PairLists(1)}
MapDocs == {ObjectDoc("map", s) :
              s \in {m \in SeqsUpTo(PairEntries, MaxAttrs) : DistinctTraits(m)}}

\* A document with a trait named like the first column of the report; its
\* value is a number no token of the range has.
ColumnTrait == PairEntry("token_id", 0)
ColumnDocs == {ObjectDoc("list", << ColumnTrait >>)}

\* The bodies r.json() can return.
Docs == {FalsyDoc, NonDictDoc, ObjectDoc("absent", << >>), ObjectDoc("null", << >>)}
        \cup ListDocs \cup MapDocs \cup ColumnDocs

\* src/app.py:103  `if data:`
Truthy(data) == data.kind \in {"nondict", "object"}

\* src/app.py:105,116  what `for attr in data.get("attributes", [])` yields:
\* the elements of a list, the keys of a mapping, nothing for the default [].
IterAttributes(data) ==
    IF data.form = "list" THEN data.items
    ELSE IF data.form = "map"
         THEN [k \in 1..Len(data.items) |-> KeyEntry(data.items[k].trait_type)]
         ELSE << >>

\* src/app.py:128-130  attributes, with a mapping turned into a list of pairs
NormalizedAttributes(data) ==
    IF data.form = "map"
    THEN [k \in 1..Len(data.items) |->
            PairEntry(data.items[k].trait_type, data.items[k].value)]
    ELSE IterAttributes(data)

\* src/app.py:106,114,133
\* isinstance(attr, dict) and "trait_type" in attr and "value" in attr
Qualifies(attr) == attr.shape = "pair"

\* src/app.py:105  data.get raises AttributeError on a non-dict; iterating
\* None raises TypeError.
IterError(data) ==
    IF data.kind = "nondict" THEN "AttributeError"
    ELSE IF data.form = "null" THEN "TypeError"
    ELSE "none"

-----------------------------------------------------------------------------
\* dict and Counter

Keys(d) == {d[k].token_id : k \in 1..Len(d)}

Lookup(d, id) == (CHOOSE k \in 1..Len(d) : d[k].token_id = id)

\* src/app.py:104  jsons[token_id] = data
DictSet(d, id, data) ==
    IF id \in Keys(d)
    THEN [d EXCEPT ![Lookup(d, id)] = [token_id |-> id, data |-> data]]
    ELSE Append(d, [token_id |-> id, data |-> data])

EmptyCounter == << >>

\* src/app.py:136  trait_counter[trait][val] as a read: a Counter gives 0 for
\* a missing value, the defaultdict an empty Counter for a missing trait.
Freq(tc, t, v) ==
    IF t \in DOMAIN tc /\ v \in DOMAIN tc[t] THEN tc[t][v] ELSE 0

\* Increment with the first occurrence of a value entered as 0.
IncrementFromZero(tc, t, v) ==
    IF t \in DOMAIN tc
    THEN IF v \in DOMAIN tc[t]
         THEN [tc EXCEPT ![t][v] = @ + 1]
         ELSE [tc EXCEPT ![t] = @ @@ (v :> 0)]
    ELSE tc @@ (t :> (v :> 0))

\* src/app.py:107  trait_counter[attr["trait_type"]][attr["value"]] += 1
Increment(tc, t, v) ==
    IF t \in DOMAIN tc
    THEN IF v \in DOMAIN tc[t]
         THEN [tc EXCEPT ![t][v] = @ + 1]
         ELSE [tc EXCEPT ![t] = @ @@ (v :> 1)]
    ELSE tc @@ (t :> (v :> 1))

RECURSIVE CountFrom(_, _, _)
CountFrom(tc, attrs, k) ==
    IF k > Len(attrs) THEN tc
    ELSE CountFrom(IF Qualifies(attrs[k])
                   THEN Increment(tc, attrs[k].trait_type, attrs[k].value)
                   ELSE tc,
                   attrs, k + 1)

\* src/app.py:105-107  the counting loop over one document
CountAttrs(tc, data) == CountFrom(tc, IterAttributes(data), 1)

-----------------------------------------------------------------------------
\* fetch_metadata

\* What one requests.get(url, timeout=5) followed by r.ok and r.json() can do:
\* raise (timeout, connection error), answer with a non-OK status, answer OK
\* with a body that is no JSON, or answer OK with a JSON body.
Responses ==
    {[outcome |-> o, body |-> NoneDoc] : o \in {"exception", "not_ok", "bad_json"}}
    \cup {[outcome |-> "ok", body |-> d] : d \in Docs}

\* TaskIds with the upper end one too far.
TaskIdsOffByOne(s, e) == s..(e + 1)

\* src/app.py:100  range(start, end + 1)
TaskIds(s, e) == s..e

\* FetchStep with a success leaving only the inner loop.
FetchStepBreaks(g, x, resp) ==
    IF resp.outcome = "ok" /\ g < Len(gateways)
    THEN [returned |-> FALSE, value |-> NoneDoc, gw |-> g + 1, sfx |-> 1]
    ELSE IF resp.outcome = "ok"
    THEN [returned |-> TRUE, value |-> resp.body, gw |-> 0, sfx |-> 0]
    ELSE IF x < Len(suffixes)
    THEN [returned |-> FALSE, value |-> NoneDoc, gw |-> g, sfx |-> x + 1]
    ELSE IF g < Len(gateways)
    THEN [returned |-> FALSE, value |-> NoneDoc, gw |-> g + 1, sfx |-> 1]
    ELSE [returned |-> TRUE, value |-> NoneDoc, gw |-> 0, sfx |-> 0]

\* src/app.py:87-96  one pass through the body of the two nested loops, with
\* gw = gateways[g] and suffix = suffixes[x]: the state of the call after it.
\* gw 0, sfx 0: the call has returned and its loop variables are gone.
FetchStep(g, x, resp) ==
    IF resp.outcome = "ok"
    THEN [returned |-> TRUE, value |-> resp.body, gw |-> 0, sfx |-> 0]
    ELSE IF x < Len(suffixes)
    THEN [returned |-> FALSE, value |-> NoneDoc, gw |-> g, sfx |-> x + 1]
    ELSE IF g < Len(gateways)
    THEN [returned |-> FALSE, value |-> NoneDoc, gw |-> g + 1, sfx |-> 1]
    ELSE [returned |-> TRUE, value |-> NoneDoc, gw |-> 0, sfx |-> 0]

-----------------------------------------------------------------------------
\* Scoring

\* a/b + n/d
AddFrac(f, n, d) == << f[1] * d + n * f[2], f[2] * d >>

\* round(n/d, 0) as Python rounds: half to even
RoundHalfEven(n, d) ==
    LET q == n \div d
        r == n % d
    IN  IF 2 * r < d THEN q
        ELSE IF 2 * r > d THEN q + 1
        ELSE IF q % 2 = 0 THEN q ELSE q + 1

\* src/app.py:136-137  freq = 0 makes 1 / (freq / total_tokens) raise
DividesByZero(data, tc) ==
    \E k \in 1..Len(NormalizedAttributes(data)) :
        LET attr == NormalizedAttributes(data)[k]
        IN  Qualifies(attr) /\ Freq(tc, attr.trait_type, attr.value) = 0

\* src/app.py:132-139  score as an exact fraction:
\* 1 / (freq / total_tokens) = total_tokens / freq
RECURSIVE ScoreFrom(_, _, _, _, _)
ScoreFrom(attrs, k, tc, total, acc) ==
    IF k > Len(attrs) THEN acc
    ELSE ScoreFrom(attrs, k + 1, tc, total,
                   IF Qualifies(attrs[k])
                   THEN AddFrac(acc, total,
                                Freq(tc, attrs[k].trait_type, attrs[k].value))
                   ELSE acc)

\* src/app.py:142  round(score, 4), in units of 10^-4
RarityScore(data, tc, total) ==
    LET s == ScoreFrom(NormalizedAttributes(data), 1, tc, total, << 0, 1 >>)
    IN  RoundHalfEven(s[1] * ScoreScale, s[2])

\* src/app.py:138  flat_traits[trait] = val on an insertion-ordered dict
FlatSet(ft, t, v) ==
    IF \E k \in 1..Len(ft) : ft[k].trait_type = t
    THEN [k \in 1..Len(ft) |->
            IF ft[k].trait_type = t THEN [trait_type |-> t, value |-> v] ELSE ft[k]]
    ELSE Append(ft, [trait_type |-> t, value |-> v])

RECURSIVE FlatFrom(_, _, _)
FlatFrom(attrs, k, ft) ==
    IF k > Len(attrs) THEN ft
    ELSE FlatFrom(attrs, k + 1,
                  IF Qualifies(attrs[k])
                  THEN FlatSet(ft, attrs[k].trait_type, attrs[k].value)
                  ELSE ft)

\* src/app.py:140-144  {key: value, **flat_traits}: a trait named like the
\* key replaces its value
RowValue(key, value, ft) ==
    IF \E k \in 1..Len(ft) : ft[k].trait_type = key
    THEN ft[CHOOSE k \in 1..Len(ft) : ft[k].trait_type = key].value
    ELSE value

\* src/app.py:124-144  the rows of rarity_data, in the order of jsons
ScoreRows(js, tc) ==
    [k \in 1..Len(js) |->
        LET ft == FlatFrom(NormalizedAttributes(js[k].data), 1, << >>)
        IN  [token_id |-> RowValue("token_id", js[k].token_id, ft),
             rarity_score |-> RowValue("rarity_score",
                                       RarityScore(js[k].data, tc, Len(js)), ft),
             flat_traits |-> ft]]

-----------------------------------------------------------------------------
\* Report and archive

RECURSIVE InsertDesc(_, _)
InsertDesc(s, x) ==
    IF s = << >> THEN << x >>
    ELSE IF x > Head(s) THEN << x >> \o s
    ELSE << Head(s) >> \o InsertDesc(Tail(s), x)

RECURSIVE SortDescFrom(_, _, _)
SortDescFrom(s, k, acc) ==
    IF k > Len(s) THEN acc ELSE SortDescFrom(s, k + 1, InsertDesc(acc, s[k]))

\* the scores in descending order
SortDesc(s) == SortDescFrom(s, 1, << >>)

FirstIndex(s, x) == CHOOSE k \in 1..Len(s) : s[k] = x /\ \A j \in 1..(k - 1) : s[j] # x
LastIndex(s, x) == CHOOSE k \in 1..Len(s) : s[k] = x /\ \A j \in (k + 1)..Len(s) : s[j] # x

\* rank(ascending=False, method="max"): ties take the last position
RankMax(scores) ==
    [k \in 1..Len(scores) |-> LastIndex(SortDesc(scores), scores[k])]

\* src/app.py:147  Series.rank(ascending=False, method="min"): the values are
\* ordered descending and every member of a group of ties takes the position
\* of the first of the group.
Rank(scores) ==
    [k \in 1..Len(scores) |-> FirstIndex(SortDesc(scores), scores[k])]

RECURSIVE InsertByRank(_, _)
InsertByRank(s, row) ==
    IF s = << >> THEN << row >>
    ELSE IF row.rarity_rank < Head(s).rarity_rank THEN << row >> \o s
    ELSE << Head(s) >> \o InsertByRank(Tail(s), row)

RECURSIVE SortByRankFrom(_, _, _)
SortByRankFrom(s, k, acc) ==
    IF k > Len(s) THEN acc ELSE SortByRankFrom(s, k + 1, InsertByRank(acc, s[k]))

\* src/app.py:148  df.sort_values("rarity_rank"); rows of equal rank keep
\* their order (numpy's default sort is an insertion sort below 17 elements).
SortValues(rows) == SortByRankFrom(rows, 1, << >>)

RECURSIVE ColumnsFrom(_, _, _)
ColumnsFrom(rows, k, cols) ==
    IF k > Len(rows) THEN cols
    ELSE LET ft == rows[k].flat_traits
             new == SelectSeq([j \in 1..Len(ft) |-> ft[j].trait_type],
                              LAMBDA t : \A c \in 1..Len(cols) : cols[c] # t)
         IN  ColumnsFrom(rows, k + 1, cols \o new)

\* src/app.py:146-147  the columns of df: the keys of the rows in order of
\* first appearance, then the added rarity_rank.
Columns(rows) ==
    ColumnsFrom(rows, 1, << "token_id", "rarity_score" >>) \o << "rarity_rank" >>

\* the cell of a row under a trait column; "" is the empty cell (NaN)
Cell(ft, t) ==
    IF \E k \in 1..Len(ft) : ft[k].trait_type = t
    THEN ft[CHOOSE k \in 1..Len(ft) : ft[k].trait_type = t].value
    ELSE ""

\* src/app.py:146-149  what to_csv writes
Report(rows) ==
    LET scores == [k \in 1..Len(rows) |-> rows[k].rarity_score]
        ranks == Rank(scores)
        cols == Columns(rows)
        traitCols == {cols[c] : c \in 3..(Len(cols) - 1)}
        ranked == [k \in 1..Len(rows) |->
                     [token_id |-> rows[k].token_id,
                      rarity_score |-> rows[k].rarity_score,
                      rarity_rank |-> ranks[k],
                      cells |-> [t \in traitCols |-> Cell(rows[k].flat_traits, t)]]]
    IN  [columns |-> cols, rows |-> SortValues(ranked)]

\* src/app.py:151-153  one entry "{token_id}.json" per item of jsons
Archive(js) ==
    [k \in 1..Len(js) |->
        [name |-> [token_id |-> js[k].token_id, ext |-> ".json"],
         content |-> js[k].data]]

NoReport == [columns |-> << >>, rows |-> << >>]

-----------------------------------------------------------------------------
\* The analyze handler

\* The locals of analyze before the handler runs.
NoLocals ==
    /\ start = 0
    /\ end = 0
    /\ fut = << >>
    /\ gw_idx = << >>
    /\ sfx_idx = << >>
    /\ succeeded = << >>
    /\ result = << >>
    /\ collected = {}
    /\ jsons = << >>
    /\ trait_counter = EmptyCounter
    /\ rarity_data = << >>
    /\ csv = NoReport
    /\ zip = << >>
    /\ disk = {}
    /\ error = "none"

locals == << start, end, fut, gw_idx, sfx_idx, succeeded, result, collected,
             jsons, trait_counter, rarity_data, csv, zip, disk, error >>

\* src/app.py:24-29  start-up with the file of users from U, or none
InitOf(U) ==
    /\ auth_file \in StartupFiles(U)
    /\ authorized_users = LoadedUsers(auth_file)
    /\ cmd = "none"
    /\ user_id = 0
    /\ args = << >>
    /\ pc = "idle"
    /\ reported = "none"
    /\ NoLocals

Init == InitOf(Operators)

\* src/app.py:35-36
Start(u) ==
    /\ pc = "idle"
    /\ cmd' = "start"
    /\ user_id' = u
    /\ args' = << >>
    /\ pc' = "done"
    /\ reported' = "welcome"
    /\ UNCHANGED << authorized_users, auth_file >>
    /\ UNCHANGED locals

\* src/app.py:38-51
Auth(u, a) ==
    /\ pc = "idle"
    /\ cmd' = "auth"
    /\ user_id' = u
    /\ args' = a
    /\ pc' = "done"
    /\ IF u \in authorized_users
       THEN reported' = "already_authorized"
            /\ UNCHANGED << authorized_users, auth_file >>
       ELSE IF Len(a) = 0
       THEN reported' = "auth_usage"
            /\ UNCHANGED << authorized_users, auth_file >>
       ELSE IF KeyMatches(a)
       THEN /\ authorized_users' = authorized_users \cup {u}
            /\ auth_file' \in SavedFiles(authorized_users \cup {u})
            /\ reported' = "access_granted"
       ELSE reported' = "invalid_key"
            /\ UNCHANGED << authorized_users, auth_file >>
    /\ UNCHANGED locals

\* src/app.py:53-100  the caller is checked, the arguments are counted and
\* parsed, the locals are set up and one task per token id is submitted to the
\* executor.
Analyze(u, a) ==
    /\ pc = "idle"
    /\ cmd' = "analyze"
    /\ user_id' = u
    /\ args' = a
    /\ UNCHANGED << authorized_users, auth_file >>
    /\ UNCHANGED << collected, jsons, trait_counter, rarity_data, csv, zip,
                    disk, error >>
    /\ IF NotAuthorized(u, authorized_users)
       THEN /\ pc' = "done"
            /\ reported' = "not_authorized"
            /\ UNCHANGED << start, end, fut, gw_idx, sfx_idx, succeeded, result >>
       ELSE IF WrongCount(a)
       THEN /\ pc' = "done"
            /\ reported' = "usage"
            /\ UNCHANGED << start, end, fut, gw_idx, sfx_idx, succeeded, result >>
       ELSE IF ~(ParsesAsInt(a[2]) /\ ParsesAsInt(a[3]))
       THEN /\ pc' = "done"
            /\ reported' = "not_integers"
            /\ UNCHANGED << start, end, fut, gw_idx, sfx_idx, succeeded, result >>
       ELSE /\ pc' = "fetch"
            /\ reported' = "none"
            /\ start' = a[2].val
            /\ end' = a[3].val
            /\ fut' = [i \in TaskIds(a[2].val, a[3].val) |-> "pending"]
            /\ gw_idx' = [i \in TaskIds(a[2].val, a[3].val) |-> 1]
            /\ sfx_idx' = [i \in TaskIds(a[2].val, a[3].val) |-> 1]
            /\ succeeded' = [i \in TaskIds(a[2].val, a[3].val) |-> FALSE]
            /\ result' = [i \in TaskIds(a[2].val, a[3].val) |-> NoneDoc]

Running == {i \in DOMAIN fut : fut[i] = "running"}

\* A pool that starts a thread for every task.
AlwaysFreeWorker(running) == TRUE

\* src/app.py:99  max_workers=32: a worker of the pool is idle, or the pool
\* has fewer threads than its size and starts one
FreeWorker(running) == Cardinality(running) < max_workers

\* src/app.py:99-100  a free worker of the pool takes the oldest queued task
WorkerStart(i) ==
    /\ pc \in {"fetch", "shutdown"}
    /\ UNCHANGED ctx
    /\ i \in DOMAIN fut
    /\ fut[i] = "pending"
    /\ \A j \in DOMAIN fut : j < i => fut[j] # "pending"
    /\ FreeWorker(Running)
    /\ fut' = [fut EXCEPT ![i] = "running"]
    /\ UNCHANGED << pc, start, end, gw_idx, sfx_idx, succeeded, result,
                    collected, jsons, trait_counter, rarity_data, csv, zip,
                    disk, reported, error >>

\* src/app.py:87-96  one request of fetch_metadata(i) and what follows it
Attempt(i, resp) ==
    /\ pc \in {"fetch", "shutdown"}
    /\ UNCHANGED ctx
    /\ i \in DOMAIN fut
    /\ fut[i] = "running"
    /\ LET step == FetchStep(gw_idx[i], sfx_idx[i], resp)
       IN  /\ succeeded' = [succeeded EXCEPT ![i] = @ \/ resp.outcome = "ok"]
           /\ gw_idx' = [gw_idx EXCEPT ![i] = step.gw]
           /\ sfx_idx' = [sfx_idx EXCEPT ![i] = step.sfx]
           /\ fut' = [fut EXCEPT ![i] = IF step.returned THEN "finished" ELSE @]
           /\ result' = [result EXCEPT ![i] = step.value]
    /\ UNCHANGED << pc, start, end, collected, jsons, trait_counter, rarity_data,
                    csv, zip, disk, reported, error >>

\* src/app.py:103-104  the entry of jsons for a collected result
StoreResult(js, i, data) == IF Truthy(data) THEN DictSet(js, i, data) ELSE js

\* src/app.py:103-107  the frequency table after a collected result
CountResult(tc, data) ==
    IF Truthy(data) /\ IterError(data) = "none" THEN CountAttrs(tc, data) ELSE tc

\* src/app.py:101-107  as_completed yields a finished future; its result is
\* stored and counted.  An exception leaves the loop; the executor then waits
\* for its workers before the exception leaves the with block.
Collect(i) ==
    /\ pc = "fetch"
    /\ UNCHANGED ctx
    /\ i \in DOMAIN fut
    /\ fut[i] = "finished"
    /\ i \notin collected
    /\ collected' = collected \cup {i}
    /\ jsons' = StoreResult(jsons, i, result[i])
    /\ trait_counter' = CountResult(trait_counter, result[i])
    /\ IF Truthy(result[i]) /\ IterError(result[i]) # "none"
       THEN pc' = "shutdown" /\ error' = IterError(result[i])
       ELSE UNCHANGED << pc, error >>
    /\ UNCHANGED << start, end, fut, gw_idx, sfx_idx, succeeded, result,
                    rarity_data, csv, zip, disk, reported >>

\* src/app.py:99-107  every future was yielded: the with block is left
LoopEnd ==
    /\ pc = "fetch"
    /\ UNCHANGED ctx
    /\ collected = DOMAIN fut
    /\ pc' = "check"
    /\ UNCHANGED << start, end, fut, gw_idx, sfx_idx, succeeded, result,
                    collected, jsons, trait_counter, rarity_data, csv, zip,
                    disk, reported, error >>

\* src/app.py:99  ThreadPoolExecutor.__exit__ has waited for all tasks: the
\* exception raised in the loop leaves the handler
Unwind ==
    /\ pc = "shutdown"
    /\ UNCHANGED ctx
    /\ \A i \in DOMAIN fut : fut[i] = "finished"
    /\ pc' = "raised"
    /\ UNCHANGED << start, end, fut, gw_idx, sfx_idx, succeeded, result,
                    collected, jsons, trait_counter, rarity_data, csv, zip,
                    disk, reported, error >>

\* src/app.py:113-117
has_valid_attributes(js) ==
    \E k \in 1..Len(js) :
        \E a \in 1..Len(IterAttributes(js[k].data)) :
            Qualifies(IterAttributes(js[k].data)[a])

\* src/app.py:109-120  the two empty-result checks
Check ==
    /\ pc = "check"
    /\ UNCHANGED ctx
    /\ IF jsons = << >>
       THEN pc' = "done" /\ reported' = "no_metadata"
       ELSE IF ~has_valid_attributes(jsons)
       THEN pc' = "done" /\ reported' = "no_valid"
       ELSE pc' = "scoring" /\ UNCHANGED reported
    /\ UNCHANGED << start, end, fut, gw_idx, sfx_idx, succeeded, result,
                    collected, jsons, trait_counter, rarity_data, csv, zip,
                    disk, error >>

\* src/app.py:122-144  the scoring loop
Score ==
    /\ pc = "scoring"
    /\ UNCHANGED ctx
    /\ IF \E k \in 1..Len(jsons) : DividesByZero(jsons[k].data, trait_counter)
       THEN pc' = "raised" /\ error' = "ZeroDivisionError"
            /\ UNCHANGED rarity_data
       ELSE pc' = "export" /\ rarity_data' = ScoreRows(jsons, trait_counter)
            /\ UNCHANGED error
    /\ UNCHANGED << start, end, fut, gw_idx, sfx_idx, succeeded, result,
                    collected, jsons, trait_counter, csv, zip, disk, reported >>

\* src/app.py:146-153  the report and the archive are written
Export ==
    /\ pc = "export"
    /\ UNCHANGED ctx
    /\ pc' = "send"
    /\ csv' = Report(rarity_data)
    /\ zip' = Archive(jsons)
    /\ disk' = disk \cup {"csv", "zip"}
    /\ UNCHANGED << start, end, fut, gw_idx, sfx_idx, succeeded, result,
                    collected, jsons, trait_counter, rarity_data, reported,
                    error >>

\* src/app.py:155-158  both files are sent, or a send raises
Deliver(sent) ==
    /\ pc = "send"
    /\ UNCHANGED ctx
    /\ IF sent
       THEN pc' = "remove" /\ reported' = "complete" /\ UNCHANGED error
       ELSE pc' = "raised" /\ error' = "TelegramError" /\ UNCHANGED reported
    /\ UNCHANGED << start, end, fut, gw_idx, sfx_idx, succeeded, result,
                    collected, jsons, trait_counter, rarity_data, csv, zip, disk >>

\* src/app.py:160-161
Remove ==
    /\ pc = "remove"
    /\ UNCHANGED ctx
    /\ pc' = "done"
    /\ disk' = {}
    /\ UNCHANGED << start, end, fut, gw_idx, sfx_idx, succeeded, result,
                    collected, jsons, trait_counter, rarity_data, csv, zip,
                    reported, error >>

\* The handler has ended; the next command starts from fresh locals and, by
\* the timestamp in their names, fresh file names.
Return ==
    /\ pc \in {"done", "raised"}
    /\ pc' = "idle"
    /\ cmd' = "none"
    /\ user_id' = 0
    /\ args' = << >>
    /\ reported' = "none"
    /\ start' = 0
    /\ end' = 0
    /\ fut' = << >>
    /\ gw_idx' = << >>
    /\ sfx_idx' = << >>
    /\ succeeded' = << >>
    /\ result' = << >>
    /\ collected' = {}
    /\ jsons' = << >>
    /\ trait_counter' = EmptyCounter
    /\ rarity_data' = << >>
    /\ csv' = NoReport
    /\ zip' = << >>
    /\ disk' = {}
    /\ error' = "none"
    /\ UNCHANGED << authorized_users, auth_file >>

Next ==
    \/ \E u \in Operators : Start(u)
    \/ \E u \in Operators, a \in AuthArgs : Auth(u, a)
    \/ \E u \in Operators, a \in AnalyzeArgs : Analyze(u, a)
    \/ \E i \in DOMAIN fut : WorkerStart(i)
    \/ \E i \in DOMAIN fut, resp \in Responses : Attempt(i, resp)
    \/ \E i \in DOMAIN fut : Collect(i)
    \/ LoopEnd
    \/ Unwind
    \/ Check
    \/ Score
    \/ Export
    \/ \E sent \in BOOLEAN : Deliver(sent)
    \/ Remove
    \/ Return

Spec == Init /\ [][Next]_vars

-----------------------------------------------------------------------------
\* The three commands from two users.  The pipeline runs on ranges of at most
\* one token whose requests fail or return one of two documents.

BotArgs == WrongCountArgs \cup NonIntegerArgs \cup RangeArgs({1}, {0, 1})

BotResponses ==
    {[outcome |-> "not_ok", body |-> NoneDoc],
     [outcome |-> "ok", body |-> ObjectDoc("null", << >>)],
     [outcome |-> "ok", body |-> ObjectDoc("list", << PairEntry("Background", "Blue") >>)]}

InitBot == InitOf(Users)

NextBot ==
    \/ \E u \in Users : Start(u)
    \/ \E u \in Users, a \in AuthArgs : Auth(u, a)
    \/ \E u \in Users, a \in BotArgs : Analyze(u, a)
    \/ \E i \in DOMAIN fut : WorkerStart(i)
    \/ \E i \in DOMAIN fut, resp \in BotResponses : Attempt(i, resp)
    \/ \E i \in DOMAIN fut : Collect(i)
    \/ LoopEnd
    \/ Unwind
    \/ Check
    \/ Score
    \/ Export
    \/ \E sent \in BOOLEAN : Deliver(sent)
    \/ Remove
    \/ Return

SpecBot == InitBot /\ [][NextBot]_vars

-----------------------------------------------------------------------------
\* The pool with more tasks than workers: one range of max_workers +
\* MaxQueued ids, every request answered with a non-OK status.  The workers
\* take their steps in the order of their ids and the results are collected
\* in that order, so that the number of calls in flight takes every value
\* the pool allows while the states stay few.

PoolArgs == RangeArgs({1}, {max_workers + MaxQueued})

AllDown == [outcome |-> "not_ok", body |-> NoneDoc]

First(S) == CHOOSE i \in S : \A j \in S : i <= j

Uncollected == {i \in DOMAIN fut : fut[i] = "finished" /\ i \notin collected}

InitPool == InitOf(Operators) /\ authorized_users = Operators

PoolAttempt == Running # {} /\ Attempt(First(Running), AllDown)

PoolCollect == Uncollected # {} /\ Collect(First(Uncollected))

NextPool ==
    \/ \E u \in Operators, a \in PoolArgs : Analyze(u, a)
    \/ \E i \in DOMAIN fut : WorkerStart(i)
    \/ PoolAttempt
    \/ PoolCollect
    \/ LoopEnd
    \/ Check
    \/ Return

SpecPool == InitPool /\ [][NextPool]_vars

-----------------------------------------------------------------------------
\* The ranking step alone: Report applied to score tables of up to MaxRows
\* rows.

RankScores == {30000, 95000, 120000}

RankInputs ==
    UNION {[1..n -> RankScores] : n \in 1..MaxRows}

RowsOf(scores) ==
    [k \in 1..Len(scores) |->
        [token_id |-> k, rarity_score |-> scores[k], flat_traits |-> << >>]]

InitRank ==
    /\ authorized_users = {}
    /\ auth_file = NoFile
    /\ cmd = "none"
    /\ user_id = 0
    /\ args = << >>
    /\ pc = "rank"
    /\ start = 0
    /\ end = 0
    /\ fut = << >>
    /\ gw_idx = << >>
    /\ sfx_idx = << >>
    /\ succeeded = << >>
    /\ result = << >>
    /\ collected = {}
    /\ jsons = << >>
    /\ trait_counter = EmptyCounter
    /\ rarity_data \in {RowsOf(scores) : scores \in RankInputs}
    /\ csv = NoReport
    /\ zip = << >>
    /\ disk = {}
    /\ reported = "none"
    /\ error = "none"

\* src/app.py:146-149
RankRows ==
    /\ pc = "rank"
    /\ UNCHANGED ctx
    /\ pc' = "ranked"
    /\ csv' = Report(rarity_data)
    /\ UNCHANGED << start, end, fut, gw_idx, sfx_idx, succeeded, result,
                    collected, jsons, trait_counter, rarity_data, zip, disk,
                    reported, error >>

NextRank == RankRows

SpecRank == InitRank /\ [][NextRank]_vars

-----------------------------------------------------------------------------
\* Properties

\* The handler that runs or has ended is analyze, called by an authorized user
\* with three arguments of which the second and the third are integers.
Accepted ==
    /\ cmd = "analyze"
    /\ user_id \in authorized_users
    /\ Len(args) = 3
    /\ args[2].int
    /\ args[3].int

\* The fetch loop ended without an exception.
LoopDone ==
    \/ pc \in {"check", "scoring", "export", "send", "remove", "done"}
    \/ pc = "raised" /\ error \in {"ZeroDivisionError", "TelegramError"}

RECURSIVE TableFrom(_, _, _)
TableFrom(js, k, tc) ==
    IF k > Len(js) THEN tc ELSE TableFrom(js, k + 1, CountResult(tc, js[k].data))

\* The frequency table the fetch loop builds from the documents of js.
FrequencyTable(js) == TableFrom(js, 1, EmptyCounter)

\* The pairs of the table and their counts.
TablePairs(tc) ==
    {p \in (Traits \X Values) \cup {<< ColumnTrait.trait_type, ColumnTrait.value >>} :
        p[1] \in DOMAIN tc /\ p[2] \in DOMAIN tc[p[1]]}

\* The qualifying pairs the scorer reads for one document.
ScoredPairs(data) ==
    {<< NormalizedAttributes(data)[a].trait_type, NormalizedAttributes(data)[a].value >> :
        a \in {b \in 1..Len(NormalizedAttributes(data)) :
                 Qualifies(NormalizedAttributes(data)[b])}}

\* C1: at the scoring stage every (trait_type, value) pair the scorer reads
\* has a frequency of at least 1 in the table built by the fetch loop.
C1_NoZeroFrequency ==
    pc = "scoring" =>
        \A k \in 1..Len(jsons) :
            \A p \in ScoredPairs(jsons[k].data) : Freq(trait_counter, p[1], p[2]) >= 1

\* C2: an invocation that has ended has either delivered both artifacts or
\* reported one of the two empty-result conditions; it never ends otherwise.
C2_TwoOutcomes ==
    (pc \in {"done", "raised"} /\ Accepted) =>
        /\ pc = "done"
        /\ reported \in {"complete", "no_metadata", "no_valid"}

\* A document with mapping-form attributes rewritten in list form.
ListForm(data) ==
    IF data.form = "map" THEN ObjectDoc("list", NormalizedAttributes(data)) ELSE data

ListFormAll(js) ==
    [k \in 1..Len(js) |-> [token_id |-> js[k].token_id, data |-> ListForm(js[k].data)]]

\* C3: list form and mapping form are treated alike: the frequency table and
\* the outcome of the valid-attributes check are those of the same documents
\* with every mapping written as the equivalent list of pairs.
C3_FormsTreatedAlike ==
    LoopDone =>
        /\ trait_counter = FrequencyTable(ListFormAll(jsons))
        /\ has_valid_attributes(jsons) = has_valid_attributes(ListFormAll(jsons))

\* C4: after the fetch loop the count of every (trait_type, value) pair is the
\* number of fetched tokens whose normalized attributes contain the pair.
C4_CountIsTokenCount ==
    LoopDone =>
        \A t \in Traits, v \in Values :
            Freq(trait_counter, t, v) =
                Cardinality({k \in 1..Len(jsons) : << t, v >> \in ScoredPairs(jsons[k].data)})

Occurrences(data, t, v) ==
    Cardinality({a \in 1..Len(IterAttributes(data)) :
                    IterAttributes(data)[a] = PairEntry(t, v)})

ListedOnce(js, t, v) ==
    \A k \in 1..Len(js) : Occurrences(js[k].data, t, v) <= 1

C6_MinCompetitionRank ==
    pc \in {"ranked", "send", "remove"} =>
        /\ Len(csv.rows) = Len(rarity_data)
        /\ {csv.rows[k].token_id : k \in 1..Len(csv.rows)}
              = {rarity_data[k].token_id : k \in 1..Len(rarity_data)}
        /\ \A k \in 1..Len(csv.rows) :
              csv.rows[k].rarity_rank =
                  1 + Cardinality({j \in 1..Len(csv.rows) :
                        csv.rows[j].rarity_score > csv.rows[k].rarity_score})
        /\ \A j, k \in 1..Len(csv.rows) :
              j < k => csv.rows[j].rarity_rank <= csv.rows[k].rarity_rank

\* Scores [12.0, 12.0, 9.5, 9.5, 3.0] are ranked [1, 1, 3, 3, 5].
C6_Witness ==
    /\ pc = "ranked"
    /\ [k \in 1..Len(rarity_data) |-> rarity_data[k].rarity_score]
          = << 120000, 120000, 95000, 95000, 30000 >>
    /\ [k \in 1..Len(csv.rows) |-> csv.rows[k].rarity_rank] = << 1, 1, 3, 3, 5 >>

RECURSIVE InsertById(_, _)
InsertById(s, item) ==
    IF s = << >> THEN << item >>
    ELSE IF item.token_id < Head(s).token_id THEN << item >> \o s
    ELSE << Head(s) >> \o InsertById(Tail(s), item)

RECURSIVE SortByIdFrom(_, _, _)
SortByIdFrom(s, k, acc) ==
    IF k > Len(s) THEN acc ELSE SortByIdFrom(s, k + 1, InsertById(acc, s[k]))

\* jsons as the run builds it in which the fetches complete in the order of
\* their submission.
InSubmissionOrder(js) == SortByIdFrom(js, 1, << >>)

\* C7: the report and the archive do not depend on the order in which the
\* fetches complete: they are those of the run with the same fetch results
\* completing in submission order.
C7_OrderIndependent ==
    pc \in {"send", "remove"} =>
        LET js == InSubmissionOrder(jsons)
        IN  /\ trait_counter = FrequencyTable(js)
            /\ csv = Report(ScoreRows(js, FrequencyTable(js)))
            /\ zip = Archive(js)

\* The number of a (gateway, suffix) combination in the fixed order.
Position(g, x) == (g - 1) * Len(suffixes) + x

\* The call for token i issues a request in this step.
Requests(i) ==
    /\ i \in DOMAIN fut
    /\ i \in DOMAIN fut'
    /\ fut[i] = "running"
    /\ fut'[i] # fut[i] \/ gw_idx'[i] # gw_idx[i] \/ sfx_idx'[i] # sfx_idx[i]

\* C8: a call starts at the first gateway with the bare URL; every request is
\* for the combination that follows the previous one in the fixed order, so no
\* combination is requested twice and at most 2 x Len(gateways) requests are
\* made; the call returns at the first success and requests nothing after it.
C8_AttemptOrder ==
    [][\A i \in 1..MaxId :
          /\ (i \in DOMAIN fut /\ i \in DOMAIN fut'
                /\ fut[i] = "pending" /\ fut'[i] = "running")
                => Position(gw_idx'[i], sfx_idx'[i]) = 1
          /\ Requests(i) =>
                /\ ~succeeded[i]
                /\ Position(gw_idx[i], sfx_idx[i]) \in 1..(2 * Len(gateways))
                /\ IF succeeded'[i]
                   THEN fut'[i] = "finished"
                   ELSE IF Position(gw_idx[i], sfx_idx[i]) < 2 * Len(gateways)
                   THEN /\ fut'[i] = "running"
                        /\ Position(gw_idx'[i], sfx_idx'[i])
                              = Position(gw_idx[i], sfx_idx[i]) + 1
                        /\ sfx_idx'[i] \in 1..Len(suffixes)
                   ELSE fut'[i] = "finished" /\ result'[i] = NoneDoc
      ]_vars

\* One call is at the last combination after five failures while another has
\* returned at a success.
C8_Witness ==
    \E i, j \in DOMAIN fut :
        /\ fut[i] = "running"
        /\ gw_idx[i] = Len(gateways)
        /\ sfx_idx[i] = Len(suffixes)
        /\ fut[j] = "finished"
        /\ succeeded[j]

\* C9: after the fetch loop an identifier of the range is absent from jsons
\* exactly when every one of its requests failed.
C9_AbsentIffAllFailed ==
    LoopDone =>
        \A i \in DOMAIN fut : (i \notin Keys(jsons)) <=> ~succeeded[i]

\* C10: an invocation with start > end submits no task, so no request is
\* made; it reports "no metadata fetched" and writes no artifact.
C10_EmptyRange ==
    (pc # "idle" /\ start > end) =>
        /\ DOMAIN fut = {}
        /\ jsons = << >>
        /\ csv = NoReport
        /\ zip = << >>
        /\ disk = {}
        /\ error = "none"
        /\ pc \in {"fetch", "check", "done"}
        /\ reported = (IF pc = "done" THEN "no_metadata" ELSE "none")

C10_Witness ==
    /\ pc = "done"
    /\ start > end
    /\ reported = "no_metadata"
    /\ disk = {}

\* No task was submitted and no file of the invocation was written.
NothingDone ==
    /\ fut = << >>
    /\ result = << >>
    /\ collected = {}
    /\ jsons = << >>
    /\ csv = NoReport
    /\ zip = << >>
    /\ disk = {}

\* The arguments of /analyze are not three, or the second or the third is no
\* integer.
Malformed(a) == Len(a) # 3 \/ ~a[2].int \/ ~a[3].int

\* C11: an /analyze whose arguments are not three, or whose start or end is
\* no integer, ends at once: it submits no fetch, writes no file and leaves
\* the authorized users and their file as they were; an authorized caller is
\* answered with the usage or the must-be-integers message.
C11_MalformedRejected ==
    [][(cmd = "none" /\ cmd' = "analyze" /\ Malformed(args')) =>
          /\ pc' = "done"
          /\ error' = "none"
          /\ NothingDone'
          /\ authorized_users' = authorized_users
          /\ auth_file' = auth_file
          /\ reported' \in {"usage", "not_integers", "not_authorized"}
          /\ user_id' \in authorized_users =>
                reported' = (IF Len(args') # 3 THEN "usage" ELSE "not_integers")
      ]_vars

\* An authorized user's /analyze with a word for the end of the range has
\* been answered, as has one with two arguments.
C11_Witness ==
    /\ pc = "done"
    /\ cmd = "analyze"
    /\ user_id \in authorized_users
    /\ \/ Len(args) = 3 /\ args[2].int /\ ~args[3].int /\ reported = "not_integers"
       \/ Len(args) = 2 /\ reported = "usage"
    /\ NothingDone

\* C18: while the handler of an /analyze runs or has ended, if its caller is
\* not in the authorized set then the handler has ended with the
\* not-authorized message, no task was submitted and no file was written,
\* whatever the arguments and whoever else is authorized.
C18_UnauthorizedDoesNothing ==
    (cmd = "analyze" /\ user_id \notin authorized_users) =>
        /\ pc = "done"
        /\ reported = "not_authorized"
        /\ error = "none"
        /\ NothingDone

\* An /analyze with a well-formed range was refused to one user while the
\* other user is authorized.
C18_Witness ==
    /\ cmd = "analyze"
    /\ user_id \notin authorized_users
    /\ authorized_users # {}
    /\ ~Malformed(args)
    /\ args[2].val <= args[3].val
    /\ pc = "done"
    /\ reported = "not_authorized"

\* The file holds exactly the authorized users.
FileHolds(f, au) == f.exists /\ Range(f.ids) = au

\* C19: no step removes a user from the authorized set; the set or its file
\* changes only in the step of an /auth from a user not yet in the set whose
\* first argument is the access key, which adds that user and nobody else and
\* saves the new set; an /auth without argument, with another first argument
\* or from an authorized user changes neither.
C19_SetOnlyGrows ==
    [][/\ authorized_users \subseteq authorized_users'
       /\ (authorized_users' # authorized_users \/ auth_file' # auth_file) =>
             /\ cmd = "none"
             /\ cmd' = "auth"
             /\ user_id' \notin authorized_users
             /\ Len(args') >= 1
             /\ args'[1].text = ACCESS_KEY
             /\ authorized_users' = authorized_users \cup {user_id'}
             /\ FileHolds(auth_file', authorized_users')
       /\ (cmd = "none" /\ cmd' = "auth"
             /\ (user_id' \in authorized_users \/ Len(args') = 0
                   \/ args'[1].text # ACCESS_KEY)) =>
             /\ authorized_users' = authorized_users
             /\ auth_file' = auth_file
      ]_vars

\* The second user has been granted access with the key, and the file lists
\* both.
C19_Witness ==
    /\ cmd = "auth"
    /\ reported = "access_granted"
    /\ authorized_users = Users
    /\ FileHolds(auth_file, Users)

\* Some attribute entry of some fetched token has the trait_type/value
\* shape, a mapping being read as its list of pairs.
SomeEntryQualifies(js) ==
    \E k \in 1..Len(js) :
        \E a \in 1..Len(NormalizedAttributes(js[k].data)) :
            Qualifies(NormalizedAttributes(js[k].data)[a])

NothingWritten == csv = NoReport /\ zip = << >> /\ disk = {}

\* C12: in a run of the pipeline a file is written only if some token yielded
\* metadata and some attribute entry of the fetched tokens qualifies; a run
\* that ends with no token fetched has reported "no metadata fetched", one
\* that ends with tokens fetched and no qualifying entry has reported "no
\* valid attributes", and both have written nothing.
C12_ArtifactsOnlyWithValidInput ==
    Accepted =>
        /\ ~NothingWritten => (jsons # << >> /\ SomeEntryQualifies(jsons))
        /\ (pc \in {"done", "raised"} /\ jsons = << >>) =>
              (pc = "done" /\ reported = "no_metadata" /\ NothingWritten)
        /\ (pc \in {"done", "raised"} /\ jsons # << >> /\ ~SomeEntryQualifies(jsons)) =>
              (pc = "done" /\ reported = "no_valid" /\ NothingWritten)

\* Both files of the run have been written.
Exported ==
    Accepted /\ (pc \in {"send", "remove"} \/ (pc = "done" /\ reported = "complete"))

\* C13: once both files are written, the token_id column of the report, the
\* names "{token_id}.json" of the archive and the keys of jsons are the same
\* set, with one row and one entry per key, none for a token whose fetch
\* returned nothing, and every entry holds the document of its token.
C13_ReportArchiveRoundTrip ==
    Exported =>
        /\ Len(csv.rows) = Len(jsons)
        /\ Len(zip) = Len(jsons)
        /\ Cardinality(Keys(jsons)) = Len(jsons)
        /\ {csv.rows[k].token_id : k \in 1..Len(csv.rows)} = Keys(jsons)
        /\ {zip[k].name.token_id : k \in 1..Len(zip)} = Keys(jsons)
        /\ \A k \in 1..Len(zip) :
              /\ zip[k].name.ext = ".json"
              /\ zip[k].content = jsons[Lookup(jsons, zip[k].name.token_id)].data
        /\ \A i \in DOMAIN fut : result[i] = NoneDoc => i \notin Keys(jsons)

\* How often the attributes the scorer reads for a document hold the pair p.
ScoredOccurrences(data, p) ==
    Cardinality({a \in 1..Len(NormalizedAttributes(data)) :
                    NormalizedAttributes(data)[a] = PairEntry(p[1], p[2])})

\* The sum, over the pairs of S, of occurrences x total / frequency, added to
\* the fraction acc.
RECURSIVE SumOfPairs(_, _, _, _, _)
SumOfPairs(S, data, tc, total, acc) ==
    IF S = {} THEN acc
    ELSE LET p == CHOOSE q \in S : TRUE
         IN  SumOfPairs(S \ {p}, data, tc, total,
                        AddFrac(acc, ScoredOccurrences(data, p) * total,
                                Freq(tc, p[1], p[2])))

\* The rows of the report have been computed.
Scored ==
    Accepted /\ (pc \in {"export", "send", "remove"} \/ (pc = "done" /\ reported = "complete"))

\* C14: the score of every token of the report is the sum, over its
\* qualifying entries, of the number of fetched tokens divided by the
\* frequency of the entry's pair; so the entries of a pair that every fetched
\* token holds add 1 to the score, and those of a pair that only this token
\* holds add the number of fetched tokens.
C14_ScoreIsSumOfInverseFrequencies ==
    Scored =>
        \A k \in 1..Len(jsons) :
            LET data == jsons[k].data
                total == Len(jsons)
                sum == SumOfPairs(ScoredPairs(data), data, trait_counter, total, << 0, 1 >>)
            IN  /\ rarity_data[k].rarity_score = RoundHalfEven(sum[1] * ScoreScale, sum[2])
                /\ \A p \in ScoredPairs(data) :
                      /\ (\A j \in 1..Len(jsons) : p \in ScoredPairs(jsons[j].data)) =>
                            ScoredOccurrences(data, p) * total = Freq(trait_counter, p[1], p[2])
                      /\ (\A j \in 1..Len(jsons) : j # k => p \notin ScoredPairs(jsons[j].data)) =>
                            ScoredOccurrences(data, p) = Freq(trait_counter, p[1], p[2])

\* C16: for start <= end one task is submitted for every id of start..end
\* and for no other; only a finished task is collected; and when the handler
\* has ended every task has run to its end and its result has been collected.
C16_OneFetchPerId ==
    (Accepted /\ start <= end) =>
        /\ DOMAIN fut = start..end
        /\ \A i \in collected : i \in DOMAIN fut /\ fut[i] = "finished"
        /\ pc \in {"done", "raised"} =>
              \A i \in start..end : fut[i] = "finished" /\ i \in collected

\* C17: when the handler of an /analyze has ended, by returning or by an
\* exception, neither the report nor the archive of the invocation exists.
C17_NoFileRemains ==
    (cmd = "analyze" /\ pc \in {"done", "raised"}) => disk = {}

\* C15: the number of fetch calls in flight never exceeds the size of the
\* pool, and a task whose id lies beyond the first max_workers has left the
\* queue only after an earlier call has returned.
C15_InFlightWithinPool ==
    /\ Cardinality(Running) <= max_workers
    /\ \A i \in DOMAIN fut :
          (i - start >= max_workers /\ fut[i] # "pending") =>
              \E j \in DOMAIN fut : j < i /\ fut[j] = "finished"

\* The pool is full, with a task beyond the first max_workers running on a
\* worker that became free and another still queued.
C15_Witness ==
    /\ Cardinality(Running) = max_workers
    /\ \E i \in DOMAIN fut : i - start >= max_workers /\ fut[i] = "running"
    /\ \E i \in DOMAIN fut : fut[i] = "pending"
====
